---- MODULE Spec2Model ----
(***************************************************************************)
(* A model of ircparser.py: the decoding of one line of IRC output into    *)
(* the six fields (server, channel, recipient, user, type, msg).           *)
(*                                                                         *)
(* A Python string is a sequence of one-character strings.  A value that   *)
(* may be None is a record [present, val].  A call that may raise          *)
(* IndexError returns a record [raised, val].                              *)
(***************************************************************************)
EXTENDS Integers, Sequences, FiniteSets, TLC

VARIABLES line, pc, output, result, raised, printed, exitCode

vars == <<line, pc, output, result, raised, printed, exitCode>>

-----------------------------------------------------------------------------
(* Python values *)

None == [present |-> FALSE, val |-> <<>>]

Some(v) == [present |-> TRUE, val |-> v]

IndexError == [raised |-> TRUE, val |-> <<>>]

Ok(v) == [raised |-> FALSE, val |-> v]

(* seq[i] of Python, i counted from 0: IndexError past the end *)
Index(seq, i) == IF i + 1 <= Len(seq) THEN Ok(seq[i + 1]) ELSE IndexError

(* seq[i:] of Python: never raises *)
SliceFrom(seq, i) == IF i + 1 <= Len(seq) THEN SubSeq(seq, i + 1, Len(seq)) ELSE <<>>

-----------------------------------------------------------------------------
(* str methods *)

startswith(s, p) == Len(s) >= Len(p) /\ SubSeq(s, 1, Len(p)) = p

contains(s, c) == \E i \in 1..Len(s) : s[i] = c

FirstAt(s, c) == CHOOSE i \in 1..Len(s) : s[i] = c /\ \A j \in 1..(i - 1) : s[j] # c

(* s.split(sep), sep one character: k separators give k + 1 pieces, empty ones kept *)
RECURSIVE split(_, _)
split(s, sep) ==
    IF ~contains(s, sep) THEN <<s>>
    ELSE LET i == FirstAt(s, sep)
         IN  <<SubSeq(s, 1, i - 1)>> \o split(SubSeq(s, i + 1, Len(s)), sep)

Whitespace == {" "}

(* s.split(): the maximal runs of non-whitespace characters, none empty *)
RECURSIVE splitws(_)
splitws(s) ==
    IF s = <<>> THEN <<>>
    ELSE IF s[1] \in Whitespace THEN splitws(Tail(s))
    ELSE IF \A i \in 1..Len(s) : s[i] \notin Whitespace THEN <<s>>
    ELSE LET i == CHOOSE k \in 1..Len(s) :
                      s[k] \in Whitespace /\ \A j \in 1..(k - 1) : s[j] \notin Whitespace
         IN  <<SubSeq(s, 1, i - 1)>> \o splitws(SubSeq(s, i + 1, Len(s)))

(* sep.join(seq) *)
RECURSIVE join(_, _)
join(seq, sep) ==
    IF seq = <<>> THEN <<>>
    ELSE IF Len(seq) = 1 THEN seq[1]
    ELSE seq[1] \o sep \o join(Tail(seq), sep)

Digit == {"0", "1", "2", "3", "4", "5", "6", "7", "8", "9"}

Sign == {"+", "-"}

(* int(c) succeeds on a word: an optional sign, then digits, single underscores
   allowed between digits; anything else is a ValueError *)
IsIntLiteral(c) ==
    LET body == IF c # <<>> /\ c[1] \in Sign THEN Tail(c) ELSE c
    IN  /\ body # <<>>
        /\ \A i \in 1..Len(body) : body[i] \in Digit \cup {"_"}
        /\ body[1] \in Digit
        /\ body[Len(body)] \in Digit
        /\ \A i \in 1..(Len(body) - 1) : ~(body[i] = "_" /\ body[i + 1] = "_")

-----------------------------------------------------------------------------
(* The words the code compares with *)

PING == <<"P", "I", "N", "G">>
NOTICE == <<"N", "O", "T", "I", "C", "E">>
PRIVMSG == <<"P", "R", "I", "V", "M", "S", "G">>
PART == <<"P", "A", "R", "T">>
JOIN == <<"J", "O", "I", "N">>
MODE == <<"M", "O", "D", "E">>
Code333 == <<"3", "3", "3">>
Sigils == {"@", "!", "&", "~"}

-----------------------------------------------------------------------------
(* The extraction functions.  t is the token list. *)

(* the first piece of the split is kept *)
tokenize_KeepFirst(s) ==
    LET p == split(s, ":")
    IN  IF Len(p) > 1 THEN p ELSE <<>>

tokenize(s) ==
    LET p == split(s, ":")
    IN  IF Len(p) > 1 THEN Tail(p) ELSE <<>>

getNickname(t) ==
    LET t0 == Index(t, 0)
    IN  IF t0.raised THEN IndexError ELSE Index(split(t0.val, "!"), 0)

strippedNickname(s) ==
    IF Len(s) > 1 /\ s[1] \in Sigils THEN Tail(s) ELSE s

getHostname(t) ==
    LET t0 == Index(t, 0)
        a == IF t0.raised THEN IndexError ELSE Index(split(t0.val, "!"), 1)
        b == IF a.raised THEN IndexError ELSE Index(split(a.val, "@"), 1)
    IN  IF b.raised THEN IndexError ELSE Index(splitws(b.val), 0)

getUser(t) ==
    LET t0 == Index(t, 0)
        a == IF t0.raised THEN IndexError ELSE Index(split(t0.val, "!"), 1)
    IN  IF a.raised THEN IndexError ELSE Index(split(a.val, "@"), 0)

getChannel(t) ==
    LET t0 == Index(t, 0)
    IN  IF t0.raised THEN IndexError
        ELSE LET w == splitws(t0.val)
                 hits == {i \in 1..Len(w) : startswith(w[i], <<"#">>)}
             IN  IF hits = {} THEN Ok(None)
                 ELSE Ok(Some(w[CHOOSE i \in hits : \A j \in hits : i <= j]))

(* the second word instead of the third *)
getRecipient_Second(t) ==
    LET t0 == Index(t, 0)
    IN  IF t0.raised THEN IndexError ELSE Index(splitws(t0.val), 1)

getRecipient(t) ==
    LET t0 == Index(t, 0)
    IN  IF t0.raised THEN IndexError ELSE Index(splitws(t0.val), 2)

getServer(t) ==
    LET t0 == Index(t, 0)
    IN  IF t0.raised THEN IndexError ELSE Index(splitws(t0.val), 0)

getAction(t) ==
    LET t0 == Index(t, 0)
    IN  IF t0.raised THEN IndexError ELSE Index(splitws(t0.val), 1)

(* '@' tested instead of '!' *)
isServerMessage_At(t) ==
    LET t0 == Index(t, 0)
        w == IF t0.raised THEN IndexError ELSE Index(splitws(t0.val), 0)
    IN  IF w.raised THEN IndexError ELSE Ok(~contains(w.val, "@"))

isServerMessage(t) ==
    LET t0 == Index(t, 0)
        w == IF t0.raised THEN IndexError ELSE Index(splitws(t0.val), 0)
    IN  IF w.raised THEN IndexError ELSE Ok(~contains(w.val, "!"))

(* a missing second word gives None instead of IndexError *)
getIRCCode_NoRaise(t) ==
    LET t0 == Index(t, 0)
        c == IF t0.raised THEN IndexError ELSE Index(splitws(t0.val), 1)
    IN  IF t0.raised THEN IndexError
        ELSE IF c.raised THEN Ok(None)
        ELSE IF IsIntLiteral(c.val) THEN Ok(Some(c.val)) ELSE Ok(None)

getIRCCode(t) ==
    LET t0 == Index(t, 0)
        c == IF t0.raised THEN IndexError ELSE Index(splitws(t0.val), 1)
    IN  IF c.raised THEN IndexError
        ELSE IF IsIntLiteral(c.val) THEN Ok(Some(c.val)) ELSE Ok(None)

(* the 333 rule tried before the trailing text *)
getMsg_333First(t, code, action) ==
    IF code = Some(Code333) THEN
        LET t0 == Index(t, 0)
        IN  IF t0.raised THEN IndexError
            ELSE Ok(Some(join(SliceFrom(splitws(t0.val), 4), <<" ">>)))
    ELSE IF Len(t) > 1 THEN Ok(Some(join(Tail(t), <<":">>)))
    ELSE IF action = Some(MODE) THEN
        LET t0 == Index(t, 0)
        IN  IF t0.raised THEN IndexError
            ELSE Ok(Some(join(SliceFrom(splitws(t0.val), 3), <<" ">>)))
    ELSE Ok(None)

(* code and action are optional words; t[0] is read only in the 333 and MODE branches *)
getMsg(t, code, action) ==
    IF Len(t) > 1 THEN Ok(Some(join(Tail(t), <<":">>)))
    ELSE IF code = Some(Code333) THEN
        LET t0 == Index(t, 0)
        IN  IF t0.raised THEN IndexError
            ELSE Ok(Some(join(SliceFrom(splitws(t0.val), 4), <<" ">>)))
    ELSE IF action = Some(MODE) THEN
        LET t0 == Index(t, 0)
        IN  IF t0.raised THEN IndexError
            ELSE Ok(Some(join(SliceFrom(splitws(t0.val), 3), <<" ">>)))
    ELSE Ok(None)

-----------------------------------------------------------------------------
(* The result in the shape the output argument selects: the same six values
   as a dict, an object, a list or a tuple *)

Shapes == {"tuple", "dict", "dictionary", "object", "list"}

shapeOf(out) ==
    IF out \in {"dict", "dictionary"} THEN "dict"
    ELSE IF out = "object" THEN "object"
    ELSE IF out = "list" THEN "list"
    ELSE "tuple"

Fields(out, server, channel, recipient, user, type, msg) ==
    [shape |-> shapeOf(out), server |-> server, channel |-> channel,
     recipient |-> recipient, user |-> user, type |-> type, msg |-> msg]

AllNone(out) == Fields(out, None, None, None, None, None, None)

(* the code forgotten *)
actionOrCode_ActionOnly(action, code) == action

(* action or code *)
actionOrCode(action, code) == IF action.present /\ action.val # <<>> THEN action ELSE code

(* if action == 'PART': msg = channel *)
partMsg(action, channel, msg) == IF action = Some(PART) THEN channel ELSE msg

(* the JOIN overwrite left out *)
joinChannel_Never(action, channel, msg) == channel

(* the overwrite applied to PART as well *)
joinChannel_PartToo(action, channel, msg) ==
    IF action \in {Some(JOIN), Some(PART)} THEN msg ELSE channel

(* if action == 'JOIN': channel = getMsg(t, code=code, action=action) *)
joinChannel(action, channel, msg) == IF action = Some(JOIN) THEN msg ELSE channel

(* the else branch of _parse, lines 141-159 *)
parseOther(s, t, out) ==
    LET srv == isServerMessage(t)
    IN  IF srv.raised THEN IndexError
        ELSE
        LET server == IF srv.val THEN getServer(t) ELSE Ok(<<>>)
            nick == IF srv.val THEN Ok(<<>>) ELSE getNickname(t)
            usr == IF srv.val THEN Ok(<<>>) ELSE getUser(t)
            host == IF srv.val THEN Ok(<<>>) ELSE getHostname(t)
            act == IF srv.val THEN Ok(<<>>) ELSE getAction(t)
        IN  IF server.raised \/ nick.raised \/ usr.raised \/ host.raised \/ act.raised
            THEN IndexError
            ELSE
            LET serverF == IF srv.val THEN Some(server.val) ELSE None
                userF == IF srv.val THEN None
                         ELSE Some(<<strippedNickname(nick.val), usr.val, host.val>>)
                action == IF srv.val THEN None ELSE Some(act.val)
                wantsRecipient == action \in {Some(NOTICE), Some(PRIVMSG)} /\ ~srv.val
                rcp == IF wantsRecipient THEN getRecipient(t) ELSE Ok(<<>>)
                code == getIRCCode(t)
                channel == getChannel(t)
            IN  IF rcp.raised \/ code.raised \/ channel.raised THEN IndexError
                ELSE
                LET recipient == IF wantsRecipient THEN Some(rcp.val) ELSE None
                    msg == getMsg(t, code.val, action)
                IN  IF msg.raised THEN IndexError
                    ELSE
                    LET msgF == partMsg(action, channel.val, msg.val)
                        channelF == joinChannel(action, channel.val, msg.val)
                    IN  Ok(Fields(out, serverF, channelF, recipient, userF,
                                  actionOrCode(action, code.val), msgF))

(* the PING branch of _parse, lines 133-139 *)
parsePing(s, t, out) ==
    LET msg == Index(t, 0)
    IN  IF msg.raised THEN IndexError
        ELSE Ok(Fields(out, None, None, None, None,
                       actionOrCode(Some(PING), None), Some(msg.val)))

_parse(s, out) ==
    LET t == tokenize(s)
    IN  IF startswith(s, PING) THEN parsePing(s, t, out) ELSE parseOther(s, t, out)

(* the wrapper: IndexError becomes the result with every field None; caught
   records that the except clause ran, value is what parse returns *)
parse(s, out) ==
    LET r == _parse(s, out)
    IN  [caught |-> r.raised, value |-> IF r.raised THEN AllNone(out) ELSE r.val]

-----------------------------------------------------------------------------
(* The lines decoded: lead, words separated by one space, trailing segments
   separated by ':' *)

MaxParams == 2
MaxTrail == 2

Nicks == {<<"a">>, <<"~", "a">>, <<"@", "a">>, <<"&", "a">>, <<"!", "a">>, <<"~">>}
Users == {<<"u">>}
Hosts == {<<"h">>, <<"h", ":", "h">>}

Prefix(n, u, h) == n \o <<"!">> \o u \o <<"@">> \o h

Origins ==
    {Prefix(n, <<"u">>, <<"h">>) : n \in Nicks}
        \cup {Prefix(<<"a">>, <<"u">>, <<"h", ":", "h">>),
              <<"s", "v">>, <<"a", "!", "u">>}

Commands ==
    {JOIN, PART, MODE, NOTICE, PRIVMSG, <<"N", "I", "C", "K">>, Code333, <<"5">>, <<"-", "5">>}

Params == {<<"#", "c">>, <<"x">>}

Segments == {<<"#", "c">>, <<"x">>}

Leads == {<<>>, <<":">>, PING \o <<" ", ":">>, PING \o <<" ">>}

SeqsUpTo(S, n) == UNION {[1..k -> S] : k \in 0..n}

WordSeqs ==
    {<<>>} \cup {<<o>> : o \in Origins}
        \cup {<<o, c>> \o ps : o \in Origins, c \in Commands, ps \in SeqsUpTo(Params, MaxParams)}

Trailing(ts) == IF ts = <<>> THEN <<>> ELSE <<" ", ":">> \o join(ts, <<":">>)

Lines ==
    {lead \o join(ws, <<" ">>) \o Trailing(ts) :
        lead \in Leads, ws \in WordSeqs, ts \in SeqsUpTo(Segments, MaxTrail)}

(* the argument lists that ' '.join turns into the line *)
Argvs(s) == {split(s, " "), <<s>>} \cup (IF s = <<>> THEN {<<>>} ELSE {})

-----------------------------------------------------------------------------
(* The calls *)

Init ==
    /\ line \in Lines
    /\ pc = "ready"
    /\ output = "tuple"
    /\ result = AllNone("tuple")
    /\ raised = FALSE
    /\ printed = FALSE
    /\ exitCode = 0

(* a call of parse(line, output=out) *)
Parse(out) ==
    /\ pc = "ready"
    /\ pc' = "parsed"
    /\ output' = out
    /\ \E p \in {parse(line, out)} :
          /\ result' = p.value
          /\ raised' = p.caught
    /\ UNCHANGED <<line, printed, exitCode>>

(* a run of the script: an IndexError of _parse is not caught, the interpreter
   prints the traceback and exits with status 1 *)
Main(argv) ==
    /\ pc = "ready"
    /\ \E r \in {_parse(join(argv, <<" ">>), "dict")} :
          /\ pc' = "exited"
          /\ output' = "dict"
          /\ raised' = r.raised
          /\ printed' = ~r.raised
          /\ result' = IF r.raised THEN result ELSE r.val
          /\ exitCode' = IF r.raised THEN 1 ELSE 0
    /\ UNCHANGED line

Next ==
    \/ \E out \in Shapes : Parse(out)
    \/ \E argv \in Argvs(line) : Main(argv)

Spec == Init /\ [][Next]_vars

-----------------------------------------------------------------------------
(* What the properties read off the raw line *)

Parsed == pc = "parsed"

IsPing == startswith(line, PING)

Colons(s) == Cardinality({i \in 1..Len(s) : s[i] = ":"})

After(s, c) == SubSeq(s, FirstAt(s, c) + 1, Len(s))

Before(s, c) == IF contains(s, c) THEN SubSeq(s, 1, FirstAt(s, c) - 1) ELSE s

(* the text after the first ':' up to the next ':' or the end of the line *)
FirstToken == Before(After(line, ":"), ":")

(* the text after the second ':' *)
TrailingText == After(After(line, ":"), ":")

Words == IF contains(line, ":") THEN splitws(FirstToken) ELSE <<>>

UserOriginated == Len(Words) >= 1 /\ contains(Words[1], "!")

StartsWithHash(w) == Len(w) >= 1 /\ w[1] = "#"

AllAbsent ==
    /\ ~result.server.present
    /\ ~result.channel.present
    /\ ~result.recipient.present
    /\ ~result.user.present
    /\ ~result.type.present
    /\ ~result.msg.present

(* an extraction step runs out of colon-tokens or of words *)
TooShort ==
    \/ ~contains(line, ":")
    \/ /\ ~IsPing
       /\ \/ Len(Words) < 2
          \/ UserOriginated /\ Words[2] \in {NOTICE, PRIVMSG} /\ Len(Words) < 3

-----------------------------------------------------------------------------
(* C1: parse returns a result for every line; whenever an extraction step
   indexes past the colon-tokens or the words (no ':' in the line, a prefix
   with no second word, a user NOTICE/PRIVMSG with no third word), and
   whenever _parse raised IndexError, all six fields are absent. *)
C1_FallbackIsAllAbsent ==
    Parsed =>
        /\ result.shape = shapeOf(output)
        /\ TooShort => AllAbsent
        /\ raised => AllAbsent

C1_Witness ==
    /\ Parsed
    /\ raised
    /\ ~IsPing
    /\ Len(Words) = 1
    /\ AllAbsent

(* C2, as claimed: for every line ':' nick '!' user '@' host ' ' COMMAND ...,
   the user field is (nick', user, host), nick' being nick without one
   leading sigil of {@, !, &, ~} when nick is longer than one character;
   for every sigil and every host, hosts containing ':' included. *)
C2_UserTriple ==
    Parsed =>
        \A n \in Nicks, u \in Users, h \in Hosts, c \in Commands :
            LET head == <<":">> \o Prefix(n, u, h) \o <<" ">> \o c
                nick == IF Len(n) > 1 /\ n[1] \in Sigils THEN Tail(n) ELSE n
            IN  (startswith(line, head)
                    /\ (Len(line) = Len(head) \/ line[Len(head) + 1] = " "))
                    => result.user = Some(<<nick, u, h>>)

(* C3: server and user are never both present; both are absent only for a
   PING line or the fallback result; otherwise server is present when the
   first word of the first token has no '!', and user when it has. *)
C3_ServerXorUser ==
    Parsed =>
        /\ ~(result.server.present /\ result.user.present)
        /\ (~result.server.present /\ ~result.user.present) => (IsPing \/ raised)
        /\ (~IsPing /\ ~raised) =>
              IF UserOriginated
              THEN result.user.present /\ ~result.server.present
              ELSE result.server.present /\ ~result.user.present

C3_Witness ==
    /\ Parsed
    /\ ~raised
    /\ ~IsPing
    /\ UserOriginated
    /\ result.user.present
    /\ ~result.server.present

(* C4, as claimed: in every result of parse the channel is absent or starts
   with '#', JOIN included. *)
C4_ChannelHasHash ==
    Parsed => (result.channel.present => StartsWithHash(result.channel.val))

(* C4, amended: the channel is absent or starts with '#' in every result
   whose type is not JOIN; for JOIN the channel is the trailing text after
   the second ':' (absent when there is none), whatever it starts with. *)
C4_ChannelHasHashUnlessJoin ==
    Parsed =>
        IF result.type = Some(JOIN)
        THEN result.channel = (IF Colons(line) >= 2 THEN Some(TrailingText) ELSE None)
        ELSE result.channel.present => StartsWithHash(result.channel.val)

C4_Witness ==
    /\ Parsed
    /\ result.type = Some(JOIN)
    /\ result.channel.present
    /\ ~StartsWithHash(result.channel.val)

(* C5, as claimed: recipient is present only for a user-originated NOTICE or
   PRIVMSG, equals the third word of the first token, and is absent when
   that word is a '#'-channel. *)
C5_RecipientNotChannel ==
    Parsed =>
        /\ result.recipient.present =>
              /\ result.user.present
              /\ result.type \in {Some(NOTICE), Some(PRIVMSG)}
              /\ Len(Words) >= 3
              /\ result.recipient.val = Words[3]
        /\ (UserOriginated /\ Len(Words) >= 3 /\ Words[2] \in {NOTICE, PRIVMSG}
                /\ StartsWithHash(Words[3]))
              => ~result.recipient.present

(* C5, amended: recipient is present exactly when the line decodes without
   fallback as a user-originated NOTICE or PRIVMSG, and then equals the third
   word of the first token, a '#'-channel included. *)
C5_RecipientIsThirdWord ==
    Parsed =>
        /\ result.recipient.present <=>
              (~raised /\ ~IsPing /\ UserOriginated /\ Len(Words) >= 3
                  /\ Words[2] \in {NOTICE, PRIVMSG})
        /\ result.recipient.present =>
              /\ result.user.present
              /\ result.type \in {Some(NOTICE), Some(PRIVMSG)}
              /\ result.recipient.val = Words[3]

C5_Witness ==
    /\ Parsed
    /\ result.type = Some(PRIVMSG)
    /\ result.recipient.present
    /\ StartsWithHash(result.recipient.val)

(* C6: for a line that starts with PING and contains a ':', type is PING,
   msg is the first colon-token, and server, user, recipient and channel are
   absent. *)
C6_Ping ==
    (Parsed /\ IsPing /\ contains(line, ":")) =>
        /\ result.type = Some(PING)
        /\ result.msg = Some(FirstToken)
        /\ ~result.server.present
        /\ ~result.user.present
        /\ ~result.recipient.present
        /\ ~result.channel.present

C6_Witness ==
    /\ Parsed
    /\ IsPing
    /\ Colons(line) >= 2
    /\ UserOriginated
    /\ Len(Words) >= 3
    /\ StartsWithHash(Words[3])
    /\ result.type = Some(PING)

(* C7, as claimed: type is absent, the action (PING, or the second word of a
   user-originated line), or a numeric code of exactly three digits. *)
C7_TypeThreeDigits ==
    Parsed =>
        \/ ~result.type.present
        \/ IsPing /\ result.type = Some(PING)
        \/ UserOriginated /\ Len(Words) >= 2 /\ result.type = Some(Words[2])
        \/ /\ Len(result.type.val) = 3
           /\ \A i \in 1..3 : result.type.val[i] \in Digit

(* C7, amended: type is absent on fallback, PING for a PING line, the second
   word of a user-originated line, and for a server-originated line the
   second word when int() accepts it, an optionally signed literal of any
   number of digits (absent otherwise). *)
C7_TypeIsActionOrCode ==
    Parsed =>
        IF raised THEN ~result.type.present
        ELSE IF IsPing THEN result.type = Some(PING)
        ELSE IF UserOriginated THEN result.type = Some(Words[2])
        ELSE IF IsIntLiteral(Words[2])
        THEN result.type = Some(Words[2])
        ELSE ~result.type.present

C7_Witness ==
    /\ Parsed
    /\ result.server.present
    /\ result.type = Some(<<"5">>)

(* C8: for a user-originated line whose action is JOIN, channel and msg both
   equal the trailing text after the second ':' (absent when there is none),
   whatever the '#'-word scan of the first token found. *)
C8_JoinChannelIsPayload ==
    (Parsed /\ ~raised /\ ~IsPing /\ UserOriginated /\ Words[2] = JOIN) =>
        LET payload == IF Colons(line) >= 2 THEN Some(TrailingText) ELSE None
        IN  /\ result.channel = payload
            /\ result.msg = payload

C8_Witness ==
    /\ Parsed
    /\ result.type = Some(JOIN)
    /\ result.user.present
    /\ Len(Words) >= 3
    /\ StartsWithHash(Words[3])
    /\ result.channel.present
    /\ result.channel.val # Words[3]

(* C9, as claimed: the script prints the mapping and exits with status 0 for
   every argument list. *)
C9_MainExitsZero ==
    pc = "exited" => (exitCode = 0 /\ printed)

(* C10: for a line that is not a PING, decodes without fallback and has a
   second ':', msg is the text after the second ':' with its ':' kept, also
   for code 333 and for MODE; for PART msg is the channel the '#'-word scan
   found instead. *)
C10_MsgIsTrailingText ==
    (Parsed /\ ~IsPing /\ ~raised /\ Colons(line) >= 2) =>
        IF UserOriginated /\ Words[2] = PART
        THEN result.msg = getChannel(tokenize(line)).val
        ELSE result.msg = Some(TrailingText)

C10_Witness ==
    /\ Parsed
    /\ ~IsPing
    /\ ~raised
    /\ Words[2] = Code333
    /\ result.msg.present
    /\ contains(result.msg.val, ":")

====
